---- MODULE Spec2Model ----
(***************************************************************************)
(* PyFHD observation builder (PyFHD/data_setup/obs.py).                    *)
(*                                                                         *)
(* create_obs is modelled block by block; pc is the position inside the    *)
(* call.  An exception leaves every assignment made before it in place and *)
(* moves pc to "raised" with err naming the raising line; exit() moves pc  *)
(* to "exited".                                                            *)
(*                                                                         *)
(* Number representation (all model values are integers):                  *)
(*   - numpy arrays are sequences; numpy's 0-based indices are kept as     *)
(*     values and At(a, i) reads element i;                                *)
(*   - kbinsize is held in halves of a wavelength (0.5 is 1);              *)
(*   - FoV is held as the integer f for which (180/pi)/FoV is f halves of  *)
(*     a wavelength, i.e. FoV = (360/pi)/f degrees;                        *)
(*   - degpix is held as the integer d with degpix = (360/pi)/d degrees;   *)
(*   - min_baseline is held squared.                                       *)
(***************************************************************************)
EXTENDS Integers, Sequences, FiniteSets, TLC

\* ------------------------------------------------------------------ bounds
MaxTile == 3
NVis == 2
NFreq == 3
MaxFreq == 4

\* ------------------------------------------------------- general arithmetic
None == -1

Abs(x) == IF x < 0 THEN -x ELSE x

Max2(a, b) == IF a >= b THEN a ELSE b

SeqMax(s) == CHOOSE x \in {s[i] : i \in DOMAIN s} : \A j \in DOMAIN s : s[j] <= x

SeqMin(s) == CHOOSE x \in {s[i] : i \in DOMAIN s} : \A j \in DOMAIN s : s[j] >= x

SetMax(S) == CHOOSE x \in S : \A y \in S : y <= x

SetMin(S) == CHOOSE x \in S : \A y \in S : y >= x

RECURSIVE Pow2(_)
Pow2(k) == IF k <= 0 THEN 1 ELSE 2 * Pow2(k - 1)

\* floor(log(n)/log(2)) for an integer n >= 1
RECURSIVE FloorLog2(_)
FloorLog2(n) == IF n < 2 THEN 0 ELSE 1 + FloorLog2(n \div 2)

RECURSIVE SeqSum(_)
SeqSum(s) == IF s = <<>> THEN 0 ELSE Head(s) + SeqSum(Tail(s))

\* element i (0-based) of a numpy array
At(a, i) == a[i + 1]

Zeros(n) == [i \in 1..n |-> 0]

\* ------------------------------------------------------------------- state
VARIABLES pyfhd_header, params, pyfhd_config, metafits,
          pc, err, obs, baseline_info, meta, log,
          function, input_dict, env, step, pro_file, output_files, copied,
          cwd, n_idl, completed, idl_log

vars == <<pyfhd_header, params, pyfhd_config, metafits,
          pc, err, obs, baseline_info, meta, log,
          function, input_dict, env, step, pro_file, output_files, copied,
          cwd, n_idl, completed, idl_log>>

\* the state of a run of the IDL bridge (run_idl_fhd.py)
bridge == <<function, input_dict, env, step, pro_file, output_files, copied,
            cwd, n_idl, completed, idl_log>>

\* the state of create_obs and read_metafits (obs.py)
obs_state == <<pyfhd_header, params, pyfhd_config, metafits,
               pc, err, obs, baseline_info, meta, log>>

inputs == <<pyfhd_header, pyfhd_config, metafits>>

Warning(m) == [level |-> "warning", msg |-> m]

Error(m) == [level |-> "error", msg |-> m]

\* ------------------------------------------------------------------ inputs
\* packed baseline moduli: powers of two above the highest tile number
Moduli == {m \in {4, 8, 16} : m > MaxTile /\ m <= 4 * MaxTile}

\* tile pairs (A, B) of one visibility, 1 <= A <= B <= MaxTile
Pairs == {p \in (1..MaxTile) \X (1..MaxTile) : p[1] <= p[2]}

\* (uu, vv) samples of one visibility
UVPoints == {<<0, 0>>, <<1, 0>>, <<-2, 1>>, <<1, 3>>, <<0, 5>>}

\* strictly increasing channel frequencies
FreqArrays == {f \in [1..NFreq -> 1..MaxFreq] : \A i \in 1..(NFreq - 1) : f[i] < f[i + 1]}

\* time columns: contiguous runs of equal timestamps
TimeColumns == {t \in [1..NVis -> 1..NVis] : \A i \in 1..(NVis - 1) : t[i] <= t[i + 1]}

DimVals == {None, 2, 8}

DefaultHeader ==
    [n_tile |-> MaxTile, n_freq |-> NFreq, freq_res |-> 1,
     frequency_array |-> [c \in 1..NFreq |-> c], obsra |-> 30, obsdec |-> 27,
     lat |-> 27, lon |-> 30, alt |-> 100]

DefaultParams ==
    [time |-> [i \in 1..NVis |-> i],
     baseline_arr |-> [i \in 1..NVis |-> 1 * 8 + MaxTile],
     antenna1 |-> [i \in 1..NVis |-> 1],
     antenna2 |-> [i \in 1..NVis |-> MaxTile],
     uu |-> [i \in 1..NVis |-> 1],
     vv |-> [i \in 1..NVis |-> 1]]

DefaultConfig ==
    [beam_nfreq_avg |-> None, FoV |-> None, kbinsize |-> 2, dimension |-> 8,
     elements |-> None, min_baseline |-> None, run_simulation |-> FALSE]

NoMetafits == [is_file |-> FALSE, hdr |-> [RA |-> 0, DEC |-> 0, RAPHASE |-> 0, DECPHASE |-> 0],
               data |-> <<>>]

\* a METAFITS table of ntab tiles with npol rows each, in ascending or
\* descending antenna order on file; flag[r] is the flag of file row r
MetafitsTable(ntab, npol, flag, ascending) ==
    [is_file |-> TRUE,
     hdr |-> [RA |-> 10, DEC |-> 20, RAPHASE |-> 30, DECPHASE |-> 72],
     data |-> [r \in 1..(ntab * npol) |->
                 LET k == (r - 1) \div npol
                     ant == IF ascending THEN k ELSE ntab - 1 - k
                 IN [Antenna |-> ant, pol |-> (r - 1) % npol,
                     tile |-> 11 + ant, height |-> 100 + ant, flag |-> flag[r]]]]

DefaultMetafits == MetafitsTable(MaxTile, 2, [r \in 1..(2 * MaxTile) |-> 0], TRUE)

\* params of a UVFITS file whose visibilities are the tile pairs pr, packed
\* with modulus m, with or without the explicit antenna columns
TileParams(pr, m, has_ant) ==
    [DefaultParams EXCEPT
       !.baseline_arr = [i \in 1..NVis |-> pr[i][1] * m + pr[i][2]],
       !.antenna1 = [i \in 1..NVis |-> IF has_ant THEN pr[i][1] ELSE 0],
       !.antenna2 = [i \in 1..NVis |-> IF has_ant THEN pr[i][2] ELSE 0]]

InitTiles ==
    \E pr \in [1..NVis -> Pairs], m \in Moduli, has_ant \in BOOLEAN,
       nt \in 1..MaxTile, mf \in {NoMetafits, DefaultMetafits} :
        /\ params = TileParams(pr, m, has_ant)
        /\ pyfhd_header = [DefaultHeader EXCEPT !.n_tile = nt]
        /\ pyfhd_config = DefaultConfig
        /\ metafits = mf

InitImaging ==
    \E uv \in [1..NVis -> UVPoints], fov \in {None, 1, 4}, kb \in {None, 1, 3},
       dim \in DimVals, el \in DimVals :
        /\ params = [DefaultParams EXCEPT !.uu = [i \in 1..NVis |-> uv[i][1]],
                                          !.vv = [i \in 1..NVis |-> uv[i][2]]]
        /\ pyfhd_header = DefaultHeader
        /\ pyfhd_config = [DefaultConfig EXCEPT !.FoV = fov, !.kbinsize = kb,
                                                !.dimension = dim, !.elements = el]
        /\ metafits = DefaultMetafits

InitFreq ==
    \E f \in FreqArrays, res \in 1..2, avg \in {None, 1, 2} :
        /\ params = DefaultParams
        /\ pyfhd_header = [DefaultHeader EXCEPT !.frequency_array = f, !.freq_res = res]
        /\ pyfhd_config = [DefaultConfig EXCEPT !.beam_nfreq_avg = avg]
        /\ metafits = DefaultMetafits

InitTime ==
    \E t \in TimeColumns :
        /\ params = [DefaultParams EXCEPT !.time = t]
        /\ pyfhd_header = DefaultHeader
        /\ pyfhd_config = DefaultConfig
        /\ metafits = DefaultMetafits

InitMeta ==
    \E ntab \in 1..MaxTile, npol \in 1..2, ascending \in BOOLEAN, sim \in BOOLEAN :
      \E flag \in [1..(ntab * npol) -> {0, 1}] :
        /\ params = DefaultParams
        /\ pyfhd_header = DefaultHeader
        /\ pyfhd_config = [DefaultConfig EXCEPT !.run_simulation = sim]
        /\ metafits = MetafitsTable(ntab, npol, flag, ascending)

\* sky positions <<ra, dec>> in degrees on which the separations and the
\* tangents below are exact
SkyPoints == {<<0, 0>>, <<45, 0>>, <<315, 0>>, <<0, 45>>, <<0, -45>>}

\* phase centre and zenith on one meridian, or both on the equator, at most
\* 45 degrees apart
SkyPairs ==
    {pz \in SkyPoints \X SkyPoints :
        \/ pz[1][1] = pz[2][1] /\ Abs(pz[1][2] - pz[2][2]) <= 45
        \/ /\ pz[1][2] = 0
           /\ pz[2][2] = 0
           /\ Abs(pz[1][1] - pz[2][1]) \in {45, 315}}

InitZenith ==
    \E pz \in SkyPairs, is_file \in BOOLEAN :
        /\ params = DefaultParams
        /\ pyfhd_header = [DefaultHeader EXCEPT !.obsra = pz[1][1], !.obsdec = pz[1][2],
                                                !.lon = pz[2][1], !.lat = pz[2][2]]
        /\ pyfhd_config = DefaultConfig
        /\ metafits = IF is_file
                      THEN [DefaultMetafits EXCEPT !.hdr.RAPHASE = pz[1][1],
                                                   !.hdr.DECPHASE = pz[1][2]]
                      ELSE NoMetafits

EmptyProFile == [head |-> <<>>, declarations |-> <<>>, tail |-> <<>>]

NoCompleted == [stdout |-> <<>>, returncode |-> 0]

\* no run of the IDL bridge has been started
BridgeIdle ==
    /\ function = "none"
    /\ input_dict = <<>>
    /\ env = [output_dir_exists |-> TRUE, idl_installed |-> TRUE]
    /\ step = "none"
    /\ pro_file = EmptyProFile
    /\ output_files = {}
    /\ copied = 0
    /\ cwd = "launch_dir"
    /\ n_idl = 0
    /\ completed = NoCompleted
    /\ idl_log = <<>>

EmptyObs ==
    [n_tile |-> None, n_tile_float |-> FALSE, n_freq |-> None, n_time |-> None,
     n_baselines |-> None, n_vis |-> None, freq_res |-> None, beam_nfreq_avg |-> None,
     kbinsize |-> None, dimension |-> None, elements |-> None, degpix |-> None,
     max_baseline |-> None, min_baseline |-> None]

EmptyBaselineInfo ==
    [bin_offset |-> <<>>, fbin_i |-> <<>>, tile_A |-> <<>>, tile_B |-> <<>>,
     decoded |-> FALSE, freq_use |-> None, tile_use |-> None]

EmptyMeta ==
    [tile_names |-> <<>>, tile_height |-> <<>>, tile_flag |-> <<>>,
     obsra |-> None, obsdec |-> None, phasera |-> None, phasedec |-> None,
     obsx |-> None, obsy |-> None, branch |-> "none",
     zenra |-> None, zendec |-> None, zenith_ang |-> None,
     astr |-> [naxis |-> <<>>, cdelt |-> <<>>, crpix |-> <<>>, crval |-> <<>>,
               pv2 |-> <<>>]]

Init ==
    /\ \/ InitTiles
       \/ InitImaging
       \/ InitFreq
       \/ InitTime
       \/ InitMeta
       \/ InitZenith
    /\ pc = "time"
    /\ err = 0
    /\ obs = EmptyObs
    /\ baseline_info = EmptyBaselineInfo
    /\ meta = EmptyMeta
    /\ log = <<>>
    /\ BridgeIdle

\* ------------------------------------------------- external collaborators
RECURSIVE SortedSeq(_)
SortedSeq(S) == IF S = {} THEN <<>> ELSE <<SetMin(S)>> \o SortedSeq(S \ {SetMin(S)})

\* idl_argunique: the index of the last element of every run of equal values
idl_argunique(a) ==
    SortedSeq({i \in 0..(Len(a) - 1) : i = Len(a) - 1 \/ At(a, i) # At(a, i + 1)})

\* the indices of the elements of data that histogram bin b holds
BinMembers(data, mn, mx, bin_size, b) ==
    SortedSeq({i \in 0..(Len(data) - 1) :
                 /\ At(data, i) >= mn
                 /\ At(data, i) <= mx
                 /\ (At(data, i) - mn) \div bin_size = b})

RECURSIVE ReverseIndices(_, _, _, _, _, _)
ReverseIndices(data, mn, mx, bin_size, nbins, b) ==
    IF b >= nbins THEN [offsets |-> <<>>, members |-> <<>>]
    ELSE LET rest == ReverseIndices(data, mn, mx, bin_size, nbins, b + 1)
             mine == BinMembers(data, mn, mx, bin_size, b)
         IN [offsets |-> <<Len(mine)>> \o rest.offsets, members |-> mine \o rest.members]

RECURSIVE CumSumFrom(_, _)
CumSumFrom(start, s) ==
    IF s = <<>> THEN <<>> ELSE <<start + Head(s)>> \o CumSumFrom(start + Head(s), Tail(s))

\* histogram(data, bin_size, min, max): the counts of the bins of width
\* bin_size from min to max, and IDL's reverse indices ri: ri[0..nbins] are
\* positions in ri, and ri[ri[b] : ri[b + 1]] are the elements of bin b
histogram(data, bin_size, mn, mx) ==
    LET nbins == ((mx - mn) \div bin_size) + 1
        r == ReverseIndices(data, mn, mx, bin_size, nbins, 0)
    IN [hist |-> r.offsets,
        ri |-> <<nbins + 1>> \o CumSumFrom(nbins + 1, r.offsets) \o r.members]

\* -------------------------------------------------- create_obs, lines 34-57
\* bin_width of the time steps, n_time > 1
BinWidth(b0i) ==
    [i \in 1..Len(b0i) |-> IF i = 1 THEN b0i[1] + 1 ELSE b0i[i] - b0i[i - 1]]

BinOffset(bin_width) ==
    <<0>> \o CumSumFrom(0, SubSeq(bin_width, 1, Len(bin_width) - 1))

TimeBinning ==
    /\ pc = "time"
    /\ LET time == params.time
           b0i == idl_argunique(time)
           n_time == Len(b0i)
           obs1 == [obs EXCEPT !.n_tile = pyfhd_header.n_tile,
                               !.n_freq = pyfhd_header.n_freq,
                               !.n_time = n_time]
       IN IF n_time > 1
          THEN /\ obs' = [obs1 EXCEPT !.n_baselines = BinWidth(b0i)[1],
                                      !.n_vis = Len(time) * pyfhd_header.n_freq]
               /\ baseline_info' = [baseline_info EXCEPT
                                      !.bin_offset = BinOffset(BinWidth(b0i))]
               /\ pc' = "freq"
               /\ err' = err
          ELSE \* bin_width is the int time.size: line 50 assigns to an item of it
               /\ obs' = obs1
               /\ baseline_info' = baseline_info
               /\ pc' = "raised"
               /\ err' = 50
    /\ UNCHANGED <<bridge, inputs, params, meta, log>>

\* -------------------------------------------------- create_obs, lines 59-72
FreqBinAssign_SkipSingle(freq_bin_i, freq_ri, bin) ==
    IF At(freq_ri, bin) + 1 < At(freq_ri, bin + 1)
    THEN [c \in DOMAIN freq_bin_i |->
            IF \E j \in At(freq_ri, bin)..(At(freq_ri, bin + 1) - 1) : At(freq_ri, j) = c - 1
            THEN bin ELSE freq_bin_i[c]]
    ELSE freq_bin_i

\* one pass of the loop of lines 68-70
FreqBinAssign(freq_bin_i, freq_ri, bin) ==
    IF At(freq_ri, bin) < At(freq_ri, bin + 1)
    THEN [c \in DOMAIN freq_bin_i |->
            IF \E j \in At(freq_ri, bin)..(At(freq_ri, bin + 1) - 1) : At(freq_ri, j) = c - 1
            THEN bin ELSE freq_bin_i[c]]
    ELSE freq_bin_i

RECURSIVE FreqBinLoop(_, _, _, _)
FreqBinLoop(freq_bin_i, freq_ri, hist_size, bin) ==
    IF bin >= hist_size THEN freq_bin_i
    ELSE FreqBinLoop(FreqBinAssign(freq_bin_i, freq_ri, bin), freq_ri, hist_size, bin + 1)

BeamNfreqAvg(config) ==
    IF config.beam_nfreq_avg # None THEN config.beam_nfreq_avg ELSE 1

FreqBinning ==
    /\ pc = "freq"
    /\ LET freq == pyfhd_header.frequency_array
           avg == BeamNfreqAvg(pyfhd_config)
           freq_bin == avg * pyfhd_header.freq_res
           h == histogram(freq, freq_bin, SeqMin(freq), SeqMax(freq))
       IN /\ obs' = [obs EXCEPT !.freq_res = pyfhd_header.freq_res,
                                !.beam_nfreq_avg = avg]
          /\ baseline_info' = [baseline_info EXCEPT
                 !.fbin_i = FreqBinLoop(Zeros(obs.n_freq), h.ri, Len(h.hist), 0)]
    /\ pc' = "tiles"
    /\ UNCHANGED <<bridge, inputs, params, meta, log, err>>

\* -------------------------------------------------- create_obs, lines 74-99
\* the tile modulus of the packed baseline indices, lines 83-89
AntennaModIndex(baseline_arr) ==
    LET baseline_min == SeqMin(baseline_arr)
        antenna_mod_index == Pow2(FloorLog2(baseline_min))
        tile_B_test == baseline_min % antenna_mod_index
    IN IF tile_B_test > 1 /\ baseline_min % 2 = 1
       THEN antenna_mod_index \div Pow2(FloorLog2(tile_B_test))
       ELSE antenna_mod_index

\* line 90: np.floor(baseline_arr / antenna_mod_index)
DecodeTileA(baseline_arr, antenna_mod_index) ==
    [i \in DOMAIN baseline_arr |-> baseline_arr[i] \div antenna_mod_index]

\* line 91: np.fix(baseline_arr / antenna_mod_index)
DecodeTileB(baseline_arr, antenna_mod_index) ==
    [i \in DOMAIN baseline_arr |-> baseline_arr[i] \div antenna_mod_index]

\* line 75
HasAntennaColumns(p) == SeqMax(p.antenna1) > 0 /\ SeqMax(p.antenna2) > 0

\* line 76
ExplicitTileA(p) == p.antenna1

ExplicitTileB_SameColumn(p) == p.antenna1

\* line 77
ExplicitTileB(p) == p.antenna2

\* lines 78, 92, 94
TileCount(tile_A, tile_B) == Max2(SeqMax(tile_A), SeqMax(tile_B))

MismatchLog_Inverted(lg, header_n_tile, data_n_tile) ==
    IF data_n_tile = header_n_tile THEN Append(lg, Warning("mismatched_n_tiles")) ELSE lg

\* lines 92-93
MismatchLog(lg, header_n_tile, data_n_tile) ==
    IF data_n_tile # header_n_tile THEN Append(lg, Warning("mismatched_n_tiles")) ELSE lg

ResolveTiles ==
    /\ pc = "tiles"
    /\ IF HasAntennaColumns(params)
       THEN LET tile_A == ExplicitTileA(params)
                tile_B == ExplicitTileB(params)
            IN /\ baseline_info' = [baseline_info EXCEPT
                      !.tile_A = tile_A, !.tile_B = tile_B,
                      !.freq_use = obs.n_freq + 1,
                      !.tile_use = TileCount(tile_A, tile_B) + 1]
               /\ obs' = [obs EXCEPT !.n_tile = TileCount(tile_A, tile_B)]
               /\ params' = params
               /\ log' = log
       ELSE LET mod == AntennaModIndex(params.baseline_arr)
                tile_A == DecodeTileA(params.baseline_arr, mod)
                tile_B == DecodeTileB(params.baseline_arr, mod)
                n == TileCount(tile_A, tile_B)
            IN /\ baseline_info' = [baseline_info EXCEPT
                      !.tile_A = tile_A, !.tile_B = tile_B, !.decoded = TRUE,
                      !.freq_use = obs.n_freq + 1, !.tile_use = n + 1]
               \* the decoded tiles are float64: a corrected n_tile is a float64
               /\ obs' = [obs EXCEPT !.n_tile = n,
                                     !.n_tile_float = (n # obs.n_tile)]
               /\ log' = MismatchLog(log, obs.n_tile, n)
               /\ params' = [params EXCEPT !.antenna1 = tile_A, !.antenna2 = tile_B]
    /\ pc' = "imaging"
    /\ UNCHANGED <<bridge, inputs, meta, err>>

\* ------------------------------------------------ create_obs, lines 101-131
\* the (channel, visibility) samples of kx_arr and ky_arr, 0-based
Samples == (0..(NFreq - 1)) \X (0..(NVis - 1))

Kx(s) == At(pyfhd_header.frequency_array, s[1]) * At(params.uu, s[2])

Ky(s) == At(pyfhd_header.frequency_array, s[1]) * At(params.vv, s[2])

\* line 105
MaxBaselineAll == SetMax({Abs(Kx(s)) : s \in Samples} \cup {Abs(Ky(s)) : s \in Samples})

\* lines 108-113, in halves of a wavelength
Kbinsize(config) ==
    LET from_fov == IF config.FoV # None THEN config.FoV ELSE None
    IN IF config.kbinsize = None THEN 1 ELSE config.kbinsize

\* line 117 and line 129: int(2 ** int(log10(2 * max_baseline / kbinsize) / log10(2)))
\* for max_baseline > 0 and kbinsize = kbin2 / 2, so that the ratio is 4 * max_baseline / kbin2
DerivedDimension(max_baseline, kbin2) ==
    IF 4 * max_baseline >= kbin2 THEN Pow2(FloorLog2((4 * max_baseline) \div kbin2))
    ELSE IF 8 * max_baseline > kbin2 THEN 1
    ELSE 0

\* lines 116-130: the dimension and elements of the four cases
Dimension(config, max_baseline) ==
    IF config.dimension = None /\ config.elements = None
    THEN DerivedDimension(max_baseline, config.kbinsize)
    ELSE IF config.dimension # None /\ config.elements = None THEN config.dimension
    ELSE IF config.dimension = None /\ config.elements # None THEN config.elements
    ELSE config.dimension

Elements(config, max_baseline) ==
    IF config.dimension = None /\ config.elements = None
    THEN DerivedDimension(max_baseline, config.kbinsize)
    ELSE IF config.dimension # None /\ config.elements = None THEN config.dimension
    ELSE IF config.dimension = None /\ config.elements # None THEN config.elements
    ELSE config.elements

\* line 117 raises: a None kbinsize is divided by, or log10 is taken of 0
DerivedRaises(config, max_baseline) ==
    /\ config.dimension = None
    /\ config.elements = None
    /\ (config.kbinsize = None \/ max_baseline = 0)

\* line 131 raises: None is multiplied
DegpixRaises(config) == config.kbinsize = None \/ config.dimension = None

\* line 131, as the d of degpix = (360/pi)/d
Degpix(config) == config.kbinsize * config.dimension

ImagingParams ==
    /\ pc = "imaging"
    /\ LET obs1 == [obs EXCEPT !.kbinsize = Kbinsize(pyfhd_config)]
           obs2 == [obs1 EXCEPT !.dimension = Dimension(pyfhd_config, MaxBaselineAll),
                                !.elements = Elements(pyfhd_config, MaxBaselineAll)]
       IN IF DerivedRaises(pyfhd_config, MaxBaselineAll)
          THEN obs' = obs1 /\ pc' = "raised" /\ err' = 117
          ELSE IF DegpixRaises(pyfhd_config)
          THEN obs' = obs2 /\ pc' = "raised" /\ err' = 131
          ELSE /\ obs' = [obs2 EXCEPT !.degpix = Degpix(pyfhd_config)]
               /\ pc' = "baselines"
               /\ err' = err
    /\ UNCHANGED <<bridge, inputs, params, baseline_info, meta, log>>

\* ------------------------------------------------ create_obs, lines 133-138
\* line 133: the samples inside the image's Fourier support
MaxBaselineInds(o) ==
    {s \in Samples : /\ 4 * Abs(Kx(s)) < o.dimension * o.kbinsize
                     /\ 4 * Abs(Ky(s)) < o.elements * o.kbinsize}

\* line 134
MaxBaseline(o) == SetMax({Abs(Kx(s)) : s \in MaxBaselineInds(o)})

\* kr_arr[np.nonzero(kr_arr)], squared
NonzeroKr2 == {Kx(s) * Kx(s) + Ky(s) * Ky(s) : s \in Samples} \ {0}

\* lines 135-138, squared
MinBaseline2(config) ==
    IF config.min_baseline = None THEN SetMin(NonzeroKr2)
    ELSE Max2(config.min_baseline * config.min_baseline, SetMin(NonzeroKr2))

BaselineLimits ==
    /\ pc = "baselines"
    /\ IF MaxBaselineInds(obs) = {}
       THEN obs' = obs /\ pc' = "raised" /\ err' = 134
       ELSE IF NonzeroKr2 = {}
       THEN /\ obs' = [obs EXCEPT !.max_baseline = MaxBaseline(obs)]
            /\ pc' = "raised"
            /\ err' = 136
       ELSE /\ obs' = [obs EXCEPT !.max_baseline = MaxBaseline(obs),
                                  !.min_baseline = MinBaseline2(pyfhd_config)]
            /\ pc' = "metafits"
            /\ err' = err
    /\ UNCHANGED <<bridge, inputs, params, baseline_info, meta, log>>

\* ---------------------------------------------- read_metafits, lines 167-231
\* line 182: the file rows ordered by Antenna, rows of one antenna in file order
RECURSIVE StableOrder(_, _)
StableOrder(data, left) ==
    IF left = {} THEN <<>>
    ELSE LET first == CHOOSE r \in left : \A q \in left :
                          \/ data[r].Antenna < data[q].Antenna
                          \/ (data[r].Antenna = data[q].Antenna /\ r <= q)
         IN <<data[first]>> \o StableOrder(data, left \ {first})

SortByAntenna(data) == StableOrder(data, DOMAIN data)

\* line 183
SingleI(data) == SortedSeq({i \in 0..(Len(data) - 1) : At(data, i).pol = At(data, 0).pol})

\* line 186
TileFlagOfTable(data) == [r \in DOMAIN data |-> data[r].flag]

\* line 187
AllButOneFlagged(tile_flag) == SeqSum(tile_flag) = Len(tile_flag) - 1

TileFlagOfParams_OnlyA(p, n_tile) ==
    LET hist_A1 == histogram(p.antenna1, 1, 1, n_tile).hist
        tile_use == {b \in 0..(n_tile - 1) : At(hist_A1, b) = 0}
    IN [b \in 1..n_tile |-> IF (b - 1) \in tile_use THEN 1 ELSE 0]

\* lines 204-212: 1 for the tiles that no visibility names
TileFlagOfParams(p, n_tile) ==
    LET hist_A1 == histogram(p.antenna1, 1, 1, n_tile).hist
        hist_B1 == histogram(p.antenna2, 1, 1, n_tile).hist
        hist_AB == [b \in 1..n_tile |-> hist_A1[b] + hist_B1[b]]
        tile_use == {b \in 0..(n_tile - 1) : At(hist_AB, b) = 0}
    IN [b \in 1..n_tile |-> IF (b - 1) \in tile_use THEN 1 ELSE 0]

MetaOfTable(m, data, header) ==
    [m EXCEPT !.tile_names = [k \in 1..Len(SingleI(data)) |-> At(data, SingleI(data)[k]).tile],
              !.tile_height = [k \in 1..Len(SingleI(data)) |->
                                 At(data, SingleI(data)[k]).height - header.alt],
              !.tile_flag = TileFlagOfTable(data),
              !.branch = "metafits"]

MetaOfTableHeader(m, hdr) ==
    [m EXCEPT !.obsra = hdr.RA, !.obsdec = hdr.DEC,
              !.phasera = hdr.RAPHASE, !.phasedec = hdr.DECPHASE]

MetaOfHeader(m, header) ==
    [m EXCEPT !.obsra = header.obsra, !.obsdec = header.obsdec,
              !.phasera = header.obsra, !.phasedec = header.obsdec]

\* altaz_to_radec(90, 0, lat, lon, alt, JD0): the zenith has the site's
\* latitude as declination and the local sidereal time as right ascension;
\* lon is taken from the meridian that transits Greenwich at JD0
altaz_to_radec(lat, lon) == <<lon % 360, lat>>

\* angle_difference(ra1, dec1, ra2, dec2, degree = True): great-circle
\* separation, for two positions on one meridian or both on the equator
angle_difference(ra1, dec1, ra2, dec2) ==
    IF ra1 = ra2
    THEN Abs(dec1 - dec2)
    ELSE IF Abs(ra1 - ra2) > 180 THEN 360 - Abs(ra1 - ra2) ELSE Abs(ra1 - ra2)

\* parallactic_angle(latitude, hour_angle, dec): the angles the call can
\* return, in degrees from 0 to 359. On the meridian the zenith lies due
\* north or due south; on the equator it lies due east or due west; at the
\* zenith itself the direction is undetermined
parallactic_angle(latitude, hour_angle, dec) ==
    IF hour_angle = 0
    THEN IF latitude > dec THEN {0}
         ELSE IF latitude < dec THEN {180}
         ELSE {0, 90, 180, 270}
    ELSE IF hour_angle > 0 THEN {90} ELSE {270}

\* np.tan(np.radians(a)), np.sin(np.radians(a)), np.cos(np.radians(a)) at
\* the angles where they are whole numbers
Tan(a) == CASE a = 0 -> 0 [] a = 45 -> 1

Sin(a) == CASE a % 360 = 0 -> 0 [] a % 360 = 90 -> 1
            [] a % 360 = 180 -> 0 [] a % 360 = 270 -> -1

Cos(a) == CASE a % 360 = 0 -> 1 [] a % 360 = 90 -> 0
            [] a % 360 = 180 -> -1 [] a % 360 = 270 -> 0

LonOffset(m) ==
    IF Abs(m.phasera - m.zenra) > 90
    THEN m.phasera - (IF m.phasera > m.zenra THEN 360 ELSE -360) - m.zenra
    ELSE m.phasera - m.zenra

ZenithAng(m) == angle_difference(m.phasera, m.phasedec, m.zenra, m.zendec)

Xi_NoTangent(zenith_ang, parallactic_ang) == -1 * Sin(parallactic_ang)

Xi(zenith_ang, parallactic_ang) == -1 * Tan(zenith_ang) * Sin(parallactic_ang)

Eta(zenith_ang, parallactic_ang) == Tan(zenith_ang) * Cos(parallactic_ang)

\* the astrometry structure, for the parallactic angle the call returned
project_slant_orthographic(m, o, parallactic_ang) ==
    [naxis |-> <<o.dimension, o.elements>>,
     cdelt |-> <<o.degpix, o.degpix>>,
     crpix |-> <<m.obsx + 1, m.obsy + 1>>,
     crval |-> <<m.phasera, m.phasedec>>,
     pv2 |-> <<Xi(ZenithAng(m), parallactic_ang), Eta(ZenithAng(m), parallactic_ang)>>]

\* lines 222-227: the zenith, then the projection
MetaWithAstr(m, header, next_meta) ==
    LET zen == altaz_to_radec(header.lat, header.lon)
        mz == [m EXCEPT !.zenra = zen[1], !.zendec = zen[2]]
    IN \E parallactic_ang \in parallactic_angle(mz.zendec, LonOffset(mz), mz.phasedec) :
          next_meta = [mz EXCEPT !.zenith_ang = ZenithAng(mz),
                                 !.astr = project_slant_orthographic(mz, obs, parallactic_ang)]

ReadMetafits ==
    /\ pc = "metafits"
    /\ LET meta1 == [meta EXCEPT !.obsx = obs.dimension \div 2, !.obsy = obs.elements \div 2]
       IN IF metafits.is_file
          THEN LET data == SortByAntenna(metafits.data)
                   meta2 == MetaOfTable(meta1, data, pyfhd_header)
               IN IF AllButOneFlagged(meta2.tile_flag)
                  THEN IF pyfhd_config.run_simulation
                       THEN /\ log' = Append(log, Warning("all_tiles_flagged"))
                            /\ MetaWithAstr(MetaOfTableHeader(meta2, metafits.hdr),
                                            pyfhd_header, meta')
                            /\ pc' = "done"
                            /\ err' = err
                       ELSE /\ log' = Append(log, Error("all_tiles_flagged"))
                            /\ meta' = meta2
                            /\ pc' = "exited"
                            /\ err' = 192
                  ELSE /\ log' = log
                       /\ MetaWithAstr(MetaOfTableHeader(meta2, metafits.hdr),
                                       pyfhd_header, meta')
                       /\ pc' = "done"
                       /\ err' = err
          ELSE /\ log' = Append(log, Warning("metafits_not_found"))
               /\ IF obs.n_tile_float
                  THEN \* line 208: np.zeros of a float64 count raises
                       /\ meta' = [meta1 EXCEPT !.branch = "header",
                                       !.tile_names = [k \in 1..obs.n_tile |-> k]]
                       /\ pc' = "raised"
                       /\ err' = 208
                  ELSE /\ MetaWithAstr(
                            MetaOfHeader(
                              [meta1 EXCEPT !.branch = "header",
                                  !.tile_names = [k \in 1..obs.n_tile |-> k],
                                  !.tile_height = Zeros(obs.n_tile),
                                  !.tile_flag = TileFlagOfParams(params, obs.n_tile)],
                              pyfhd_header),
                            pyfhd_header, meta')
                       /\ pc' = "done"
                       /\ err' = err
    /\ UNCHANGED <<bridge, inputs, params, obs, baseline_info>>

Next ==
    \/ TimeBinning
    \/ FreqBinning
    \/ ResolveTiles
    \/ ImagingParams
    \/ BaselineLimits
    \/ ReadMetafits

Spec == Init /\ [][Next]_vars

\* ---------------------------------------------------------- the IDL bridge
\* A text is a sequence of tokens; a key is the text of its words and the
\* separators between them. A value carries its Python type and str(value).
OutputPath == <<"output", "_", "path">>

OutputDirectory == <<"output", "_", "directory">>

Version == <<"version">>

InputPathKey == <<"input", "_", "path">>

ObsId == <<"obs", "_", "id">>

Entry(k, v) == [key |-> k, value |-> v]

Value(t, r) == [type |-> t, repr |-> r]

\* the entries a verified configuration always has; input_path is a path
\* or, from a hand-built dictionary, a string
RequiredEntries(path_type) ==
    <<Entry(OutputPath, Value("PosixPath", "/out")),
      Entry(Version, Value("str", "v1")),
      Entry(InputPathKey, Value(path_type, "/in")),
      Entry(ObsId, Value("str", "1088"))>>

\* further options, each present or absent
OptionalEntries ==
    <<Entry(<<"n", "-", "avg">>, Value("int", "2")),
      Entry(<<"silent">>, Value("bool", "True")),
      Entry(<<"recalculate", "-", "all">>, Value("bool", "False")),
      Entry(<<"cal", "_", "stop">>, Value("NoneType", "None")),
      Entry(<<"n", "_", "avg">>, Value("int", "4"))>>

RECURSIVE SelectEntries(_, _)
SelectEntries(entries, chosen) ==
    IF entries = <<>> THEN <<>>
    ELSE (IF 1 \in chosen THEN <<Head(entries)>> ELSE <<>>)
         \o SelectEntries(Tail(entries), {i - 1 : i \in chosen \ {1}})

InputDicts ==
    {RequiredEntries(t) \o SelectEntries(OptionalEntries, chosen) :
        t \in {"PosixPath", "str"}, chosen \in SUBSET DOMAIN OptionalEntries}

DriverName(f) ==
    IF f = "calibration" THEN "run_fhd_calibration_only.pro" ELSE "run_fhd_healpix_imaging.pro"

Templates(f) ==
    IF f = "calibration"
    THEN <<"fhd_calibration_only.pro", "general_calibration_only.pro">>
    ELSE <<"fhd_healpix_imaging.pro", "general_healpix_imaging.pro",
           "healpix_snapshot_cube_generate_read_python.pro",
           "vis_model_freq_split_read_python.pro">>

\* what the interpreter can print, and the exit status subprocess.run gets
IdlOutputs ==
    {[stdout |-> <<>>, returncode |-> 1],
     [stdout |-> <<"FHD finished", "\n">>, returncode |-> 0],
     [stdout |-> <<"% Syntax error", "\n", "% Execution halted", "\n">>, returncode |-> 1]}

InitBridge ==
    /\ function \in {"calibration", "healpix"}
    /\ input_dict \in InputDicts
    /\ env \in [output_dir_exists : BOOLEAN, idl_installed : BOOLEAN]
    /\ step = "start"
    /\ pro_file = EmptyProFile
    /\ output_files = {}
    /\ copied = 0
    /\ cwd = "launch_dir"
    /\ n_idl = 0
    /\ completed = NoCompleted
    /\ idl_log = <<>>
    /\ pyfhd_header = DefaultHeader
    /\ params = DefaultParams
    /\ pyfhd_config = DefaultConfig
    /\ metafits = NoMetafits
    /\ pc = "none"
    /\ err = 0
    /\ obs = EmptyObs
    /\ baseline_info = EmptyBaselineInfo
    /\ meta = EmptyMeta
    /\ log = <<>>

Info(m) == [level |-> "info", msg |-> m]

Keys(d) == {d[i].key : i \in DOMAIN d}

Get(d, k) == d[CHOOSE i \in DOMAIN d : d[i].key = k].value

\* d[k] = v of a Python dict: a new key goes last, a known key keeps its place
Put(d, k, v) ==
    IF k \in Keys(d)
    THEN [i \in DOMAIN d |-> IF d[i].key = k THEN Entry(k, v) ELSE d[i]]
    ELSE Append(d, Entry(k, v))

\* old_key.replace('-', '_')
NewKey(old_key) == [i \in DOMAIN old_key |-> IF old_key[i] = "-" THEN "_" ELSE old_key[i]]

RECURSIVE IdlDict(_)
IdlDict(d) ==
    IF d = <<>> THEN <<>>
    ELSE LET last == d[Len(d)]
         IN Put(IdlDict(SubSeq(d, 1, Len(d) - 1)), NewKey(last.key), last.value)

\* int(value) of a bool
IntOfBool(value) == IF value.repr = "True" THEN "1" ELSE "0"

Declaration(key, value, idl_dict) ==
    IF key = OutputPath
    THEN [name |-> OutputDirectory,
          rhs |-> <<"'", value.repr, "/", Get(idl_dict, Version).repr, "'">>]
    ELSE IF value.type = "str" THEN [name |-> key, rhs |-> <<"'", value.repr, "'">>]
    ELSE IF value.type = "bool" THEN [name |-> key, rhs |-> <<IntOfBool(value)>>]
    ELSE IF value.type = "NoneType" THEN [name |-> key, rhs |-> <<"!NULL">>]
    ELSE IF value.type = "PosixPath" THEN [name |-> key, rhs |-> <<"'", value.repr, "'">>]
    ELSE [name |-> key, rhs |-> <<value.repr>>]

convert_argdict_to_pro(d) ==
    [head |-> <<"PRO pyfhd_config,extra">>,
     declarations |-> [i \in DOMAIN IdlDict(d) |->
                         Declaration(IdlDict(d)[i].key, IdlDict(d)[i].value, IdlDict(d))],
     tail |-> <<"extra=var_bundle(level=0)", "extra=var_bundle(level=1)", "END">>]

\* "\t" + idl_lines.replace("\n", "\n\t")
RECURSIVE ReplaceNewlines(_)
ReplaceNewlines(text) ==
    IF text = <<>> THEN <<>>
    ELSE (IF Head(text) = "\n" THEN <<"\n", "\t">> ELSE <<Head(text)>>)
         \o ReplaceNewlines(Tail(text))

Tabbed(text) == <<"\t">> \o ReplaceNewlines(text)

\* lines 178-183 and 316-321: the first log record, then pyfhd_config.pro;
\* open() raises when the output directory does not exist
ConvertArgdictToPro ==
    /\ step = "start"
    /\ idl_log' = Append(idl_log, Info(<<"Writing IDL .pro files">>))
    /\ IF env.output_dir_exists
       THEN /\ pro_file' = convert_argdict_to_pro(input_dict)
            /\ output_files' = output_files \cup {"pyfhd_config.pro"}
            /\ step' = "driver"
       ELSE /\ step' = "raised"
            /\ UNCHANGED <<pro_file, output_files>>
    /\ UNCHANGED <<function, input_dict, env, copied, cwd, n_idl, completed, obs_state>>

\* lines 187 and 324: the driver script is opened, then input_path / obs_id
\* raises TypeError when input_path is a string
WriteDriver ==
    /\ step = "driver"
    /\ output_files' = output_files \cup {DriverName(function)}
    /\ step' = IF Get(input_dict, InputPathKey).type = "PosixPath"
               THEN "templates" ELSE "raised"
    /\ UNCHANGED <<function, input_dict, env, pro_file, copied, cwd, n_idl, completed,
                   idl_log, obs_state>>

\* lines 191-195 and 333-335: one shutil.copy per template
CopyTemplate ==
    /\ step = "templates"
    /\ copied < Len(Templates(function))
    /\ output_files' = output_files \cup {Templates(function)[copied + 1]}
    /\ copied' = copied + 1
    /\ step' = IF copied + 1 = Len(Templates(function)) THEN "chdir" ELSE "templates"
    /\ UNCHANGED <<function, input_dict, env, pro_file, cwd, n_idl, completed,
                   idl_log, obs_state>>

\* lines 198-205 and 338-345: os.chdir, then the command is logged
Chdir ==
    /\ step = "chdir"
    /\ cwd' = "output_dir"
    /\ idl_log' = Append(idl_log, Info(<<"Launching IDL", "idl -IDL_DEVICE ps -e",
                                         DriverName(function)>>))
    /\ step' = "run_command"
    /\ UNCHANGED <<function, input_dict, env, pro_file, output_files, copied, n_idl,
                   completed, obs_state>>

\* where the run goes once subprocess.run has returned: on to the logging,
\* whatever was printed and whatever the exit status
AfterRunCommand_Retry(result) ==
    IF result.returncode # 0 THEN "run_command" ELSE "log_output"

AfterRunCommand(result) == "log_output"

\* lines 14-28, 210 and 350: subprocess.run, which raises when there is no
\* idl on the path
RunCommand ==
    /\ step = "run_command"
    /\ n_idl' = n_idl + 1
    /\ IF env.idl_installed
       THEN \E result \in IdlOutputs :
               /\ completed' = result
               /\ step' = AfterRunCommand(result)
       ELSE /\ step' = "raised"
            /\ UNCHANGED completed
    /\ UNCHANGED <<function, input_dict, env, pro_file, output_files, copied, cwd,
                   idl_log, obs_state>>

\* lines 213-221 and 355-363: the captured text and the elapsed time
LogOutput ==
    /\ step = "log_output"
    /\ idl_log' = idl_log \o <<Info(<<"Here is everything IDL FHD printed:", "\n">>
                                     \o Tabbed(completed.stdout)),
                               Info(<<"Running IDL FHD took", "minutes">>)>>
    /\ step' = "done"
    /\ UNCHANGED <<function, input_dict, env, pro_file, output_files, copied, cwd,
                   n_idl, completed, obs_state>>

NextBridge ==
    \/ ConvertArgdictToPro
    \/ WriteDriver
    \/ CopyTemplate
    \/ Chdir
    \/ RunCommand
    \/ LogOutput

SpecBridge == InitBridge /\ [][NextBridge]_vars

\* ------------------------------------------------------------ positions
\* the block of lines 59-72 has run
PastFreq ==
    \/ pc \in {"tiles", "imaging", "baselines", "metafits", "done", "exited"}
    \/ (pc = "raised" /\ err > 72)

\* the block of lines 74-99 has run
PastTiles ==
    \/ pc \in {"imaging", "baselines", "metafits", "done", "exited"}
    \/ (pc = "raised" /\ err > 99)

\* the block of lines 101-131 has run, to its end or to the line that raised
ImagingActed ==
    \/ pc \in {"baselines", "metafits", "done", "exited"}
    \/ (pc = "raised" /\ err >= 117)

\* read_metafits has run, to its end, to exit() or to the line that raised
MetafitsActed ==
    \/ pc \in {"done", "exited"}
    \/ (pc = "raised" /\ err >= 167)

Logged(entry) == \E k \in DOMAIN log : log[k] = entry

IsPow2(n) == \E k \in 0..16 : n = Pow2(k)

\* ------------------------------------------------------------------ claims
\* C1: create_obs gets through the dimension block (lines 115-131) in each
\* of the four cases and leaves obs.dimension and obs.elements chosen by
\* precedence: both configured values; the single configured value for both;
\* the derived power of two for both.
C1_PrecedenceCompletes ==
    ImagingActed =>
        /\ ~(pc = "raised" /\ err \in {117, 131})
        /\ obs.dimension = Dimension(pyfhd_config, MaxBaselineAll)
        /\ obs.elements = Elements(pyfhd_config, MaxBaselineAll)

\* C2: with explicit valid antenna columns the tile pairing is the columns,
\* element for element, the decoding does not run and params' antenna
\* columns are left as they were.
C2_ExplicitColumnsUnmodified ==
    [][(pc = "tiles" /\ SeqMax(params.antenna1) > 0 /\ SeqMax(params.antenna2) > 0)
         => /\ baseline_info'.tile_A = params.antenna1
            /\ baseline_info'.tile_B = params.antenna2
            /\ ~baseline_info'.decoded
            /\ params'.antenna1 = params.antenna1
            /\ params'.antenna2 = params.antenna2]_vars

C2_Witness ==
    /\ pc = "imaging"
    /\ ~baseline_info.decoded
    /\ baseline_info.tile_A = params.antenna1
    /\ baseline_info.tile_B = params.antenna2
    /\ \E i \in 1..NVis : baseline_info.tile_A[i] # baseline_info.tile_B[i]

\* C3: without antenna columns, when baseline_arr packs the pairs (A, B) as
\* A * M + B and its minimum is even, the decoding gives tile_A = A and
\* tile_B = B for every visibility and the decoded tile count is the highest
\* tile number of the data.
C3_DecodesPackedPairs ==
    (PastTiles /\ baseline_info.decoded /\ SeqMin(params.baseline_arr) % 2 = 0) =>
        \A m \in Moduli : \A pr \in [1..NVis -> Pairs] :
            params.baseline_arr = [i \in 1..NVis |-> pr[i][1] * m + pr[i][2]] =>
                /\ \A i \in 1..NVis : /\ baseline_info.tile_A[i] = pr[i][1]
                                      /\ baseline_info.tile_B[i] = pr[i][2]
                /\ TileCount(baseline_info.tile_A, baseline_info.tile_B)
                     = SetMax({pr[i][2] : i \in 1..NVis})

\* the antennas of the METAFITS table, and the flags of their rows
TableAntennas == {metafits.data[r].Antenna : r \in DOMAIN metafits.data}

TileAllFlagged(a) ==
    \A r \in DOMAIN metafits.data : metafits.data[r].Antenna = a => metafits.data[r].flag = 1

TileUnflagged(a) ==
    \A r \in DOMAIN metafits.data : metafits.data[r].Antenna = a => metafits.data[r].flag = 0

\* every tile of the table is flagged, in all of its rows, except one tile
EveryTileButOneFlagged ==
    /\ \A a \in TableAntennas : TileAllFlagged(a) \/ TileUnflagged(a)
    /\ Cardinality({a \in TableAntennas : TileUnflagged(a)}) = 1
    /\ \E a \in TableAntennas : TileAllFlagged(a)

\* C4: with a METAFITS table whose flags say that every tile but one is
\* flagged, read_metafits logs an error and the process exits when
\* run_simulation is false, and only logs a warning and goes on to return the
\* meta record when run_simulation is true.
C4_AllButOneFlaggedTerminates ==
    (MetafitsActed /\ metafits.is_file /\ EveryTileButOneFlagged) =>
        IF pyfhd_config.run_simulation
        THEN /\ pc = "done"
             /\ Logged(Warning("all_tiles_flagged"))
             /\ ~Logged(Error("all_tiles_flagged"))
             /\ meta.phasera = metafits.hdr.RAPHASE
        ELSE /\ pc = "exited"
             /\ Logged(Error("all_tiles_flagged"))

\* C5: without a METAFITS file read_metafits logs a warning, takes the
\* header branch, does not exit, and produces tile_flag, tile_names and
\* tile_height of length obs.n_tile and the header's obsra/obsdec as the
\* phase centre.
C5_FallbackProducesTiles ==
    (MetafitsActed /\ ~metafits.is_file) =>
        /\ Logged(Warning("metafits_not_found"))
        /\ meta.branch = "header"
        /\ pc = "done"
        /\ Len(meta.tile_flag) = obs.n_tile
        /\ Len(meta.tile_names) = obs.n_tile
        /\ Len(meta.tile_height) = obs.n_tile
        /\ meta.phasera = pyfhd_header.obsra
        /\ meta.phasedec = pyfhd_header.obsdec

\* the largest tile index of the resolved tile pairing
DataTileCount ==
    Max2(SeqMax(baseline_info.tile_A), SeqMax(baseline_info.tile_B))

\* C6 as stated: whenever the data-derived tile count differs from the
\* header's n_tile, obs.n_tile is the data-derived count and a warning is
\* logged; when they agree obs.n_tile is the header's and nothing is logged.
C6_MismatchAlwaysWarns ==
    PastTiles =>
        IF DataTileCount # pyfhd_header.n_tile
        THEN obs.n_tile = DataTileCount /\ Logged(Warning("mismatched_n_tiles"))
        ELSE obs.n_tile = pyfhd_header.n_tile /\ ~Logged(Warning("mismatched_n_tiles"))

\* C6 amended: obs.n_tile is the data-derived count whenever it differs from
\* the header's n_tile and the header's otherwise; the warning is logged
\* exactly when the counts differ and the pairing was decoded from
\* baseline_arr, never for explicit antenna columns.
C6_MismatchWarnsWhenDecoded ==
    PastTiles =>
        /\ IF DataTileCount # pyfhd_header.n_tile
           THEN obs.n_tile = DataTileCount
           ELSE obs.n_tile = pyfhd_header.n_tile
        /\ Logged(Warning("mismatched_n_tiles"))
             <=> (baseline_info.decoded /\ DataTileCount # pyfhd_header.n_tile)

C6_Witness ==
    /\ PastTiles
    /\ baseline_info.decoded
    /\ DataTileCount # pyfhd_header.n_tile
    /\ obs.n_tile = DataTileCount
    /\ Logged(Warning("mismatched_n_tiles"))

\* C7: obs.kbinsize is (180/pi)/FoV when FoV is configured, otherwise the
\* configured kbinsize, otherwise 0.5; a configured FoV is never discarded.
C7_KbinsizeFromFoV ==
    ImagingActed =>
        obs.kbinsize = (IF pyfhd_config.FoV # None THEN pyfhd_config.FoV
                        ELSE IF pyfhd_config.kbinsize # None THEN pyfhd_config.kbinsize
                        ELSE 1)

\* C8: with neither dimension nor elements configured, obs.dimension is a
\* power of two that is at least 2 * max_baseline / kbinsize, for every
\* max_baseline > 0 and every kbinsize, a defaulted one included.
C8_DerivedDimensionCovers ==
    (/\ ImagingActed
     /\ pyfhd_config.dimension = None
     /\ pyfhd_config.elements = None
     /\ MaxBaselineAll > 0) =>
        /\ ~(pc = "raised" /\ err = 117)
        /\ IsPow2(obs.dimension)
        /\ obs.dimension * obs.kbinsize >= 4 * MaxBaselineAll

\* the histogram bin of width beam_nfreq_avg * freq_res that holds channel c
FreqBinOf(c) ==
    (pyfhd_header.frequency_array[c] - SeqMin(pyfhd_header.frequency_array))
        \div ((IF pyfhd_config.beam_nfreq_avg = None THEN 1
               ELSE pyfhd_config.beam_nfreq_avg) * pyfhd_header.freq_res)

\* C9: every channel has exactly one frequency bin index, the index of the
\* histogram bin of width beam_nfreq_avg * freq_res that holds its
\* frequency; two channels share an index exactly when they share a bin.
C9_FreqBinIndex ==
    PastFreq =>
        /\ DOMAIN baseline_info.fbin_i = 1..pyfhd_header.n_freq
        /\ \A c \in 1..pyfhd_header.n_freq : baseline_info.fbin_i[c] = FreqBinOf(c)
        /\ \A c1, c2 \in 1..pyfhd_header.n_freq :
              (baseline_info.fbin_i[c1] = baseline_info.fbin_i[c2])
                 <=> (FreqBinOf(c1) = FreqBinOf(c2))

C9_Witness ==
    /\ PastFreq
    /\ \E c1, c2, c3 \in 1..pyfhd_header.n_freq :
          /\ c1 # c2
          /\ baseline_info.fbin_i[c1] = baseline_info.fbin_i[c2]
          /\ baseline_info.fbin_i[c3] > baseline_info.fbin_i[c1]

\* tile t is named by no visibility of params
TileAbsent(t) ==
    \A i \in 1..NVis : params.antenna1[i] # t /\ params.antenna2[i] # t

\* C10: in the header branch of read_metafits, tile_flag[t - 1] is 1 exactly
\* for the tiles t of 1..n_tile that appear in neither antenna1 nor antenna2,
\* and 0 for the others.
C10_FallbackFlagsAbsentTiles ==
    (pc = "done" /\ meta.branch = "header") =>
        /\ DOMAIN meta.tile_flag = 1..obs.n_tile
        /\ \A t \in 1..obs.n_tile :
              meta.tile_flag[t] = (IF TileAbsent(t) THEN 1 ELSE 0)

C10_Witness ==
    /\ pc = "done"
    /\ meta.branch = "header"
    /\ \E t \in 1..obs.n_tile : meta.tile_flag[t] = 1 /\ TileAbsent(t)
    /\ \E t \in 1..obs.n_tile :
          /\ meta.tile_flag[t] = 0
          /\ \A i \in 1..NVis : params.antenna1[i] # t
          /\ \E i \in 1..NVis : params.antenna2[i] = t

\* the block of lines 133-138 has assigned obs.max_baseline
BaselinesActed ==
    \/ pc \in {"metafits", "done", "exited"}
    \/ (pc = "raised" /\ err >= 136)

\* the samples inside the image's Fourier support, by the resolved obs values
InSupport(s) ==
    /\ 4 * Abs(Kx(s)) < obs.dimension * obs.kbinsize
    /\ 4 * Abs(Ky(s)) < obs.elements * obs.kbinsize

\* C14: obs.max_baseline is the largest of |kx| and |ky| over exactly the
\* samples inside the image's Fourier support; an in-support sample whose
\* |ky| exceeds every in-support |kx| decides it.
C14_MaxBaselineBothAxes ==
    BaselinesActed =>
        obs.max_baseline =
            SetMax({Max2(Abs(Kx(s)), Abs(Ky(s))) : s \in {q \in Samples : InSupport(q)}})

\* C15: for every combination of dimension, elements and kbinsize being
\* configured or absent, obs.degpix is defined and is
\* (180/pi) / (obs.kbinsize * obs.dimension), from the resolved obs values.
C15_DegpixFromResolvedObs ==
    ImagingActed =>
        /\ obs.degpix # None
        /\ obs.dimension # None
        /\ obs.degpix = obs.kbinsize * obs.dimension

\* the timestamps of the time column, in order of appearance
TimeSteps == SortedSeq({params.time[i] : i \in 1..NVis})

\* C16: for a time column of n_time >= 1 contiguous runs of equal
\* timestamps, n_time = 1 included, create_obs gets through the time block
\* with obs.n_time = n_time, obs.n_baselines = the number of visibilities of
\* the first time step, and bin_offset[i] = the number of visibilities before
\* time step i.
C16_TimeStepsCounted ==
    pc # "time" =>
        /\ ~(pc = "raised" /\ err = 50)
        /\ obs.n_time = Len(TimeSteps)
        /\ obs.n_baselines = Cardinality({i \in 1..NVis : params.time[i] = TimeSteps[1]})
        /\ DOMAIN baseline_info.bin_offset = 1..Len(TimeSteps)
        /\ \A k \in 1..Len(TimeSteps) :
              baseline_info.bin_offset[k]
                = Cardinality({i \in 1..NVis : params.time[i] < TimeSteps[k]})
\* C11: when the zenith coincides with the phase centre, the zenith angle is
\* 0, both projection offsets xi and eta stored in astr.pv2 are 0, and the
\* reference value astr.crval is the phase centre.
C11_ZenithAtPhaseCentre ==
    (pc = "done" /\ meta.zenra = meta.phasera /\ meta.zendec = meta.phasedec) =>
        /\ meta.zenith_ang = 0
        /\ meta.astr.pv2 = <<0, 0>>
        /\ meta.astr.crval = <<meta.phasera, meta.phasedec>>

C11_Witness ==
    /\ pc = "done"
    /\ meta.zenra = meta.phasera
    /\ meta.zendec = meta.phasedec
    /\ meta.astr.pv2 = <<0, 0>>
    /\ meta.astr.crval = <<meta.phasera, meta.phasedec>>
    /\ meta.phasera = 45

ConfigWritten == "pyfhd_config.pro" \in output_files

\* the declaration the claim gives an entry of the configuration
ExpectedDeclaration(entry, version) ==
    LET key == NewKey(entry.key)
        value == entry.value
    IN IF key = OutputPath
       THEN [name |-> OutputDirectory, rhs |-> <<"'", value.repr, "/", version.repr, "'">>]
       ELSE [name |-> key,
             rhs |-> CASE value.type \in {"str", "PosixPath"} -> <<"'", value.repr, "'">>
                       [] value.type = "bool" ->
                            IF value.repr = "True" THEN <<"1">> ELSE <<"0">>
                       [] value.type = "NoneType" -> <<"!NULL">>
                       [] OTHER -> <<value.repr>>]

\* C12: pyfhd_config.pro holds exactly one declaration per configuration
\* key, named by the key with every '-' replaced by '_' (output_path as
\* output_directory) and valued by the key's own value: quoted for a string
\* or a path, 0 or 1 for a boolean, !NULL for None, verbatim otherwise; no
\* key is dropped.
C12_OneDeclarationPerKey ==
    ConfigWritten =>
        /\ Len(pro_file.declarations) = Len(input_dict)
        /\ \A i \in DOMAIN input_dict :
              \E j \in DOMAIN pro_file.declarations :
                 pro_file.declarations[j]
                   = ExpectedDeclaration(input_dict[i], Get(input_dict, Version))

AllScripts(f) ==
    {"pyfhd_config.pro", DriverName(f)} \cup {Templates(f)[k] : k \in DOMAIN Templates(f)}

StdoutLogged ==
    \E k \in DOMAIN idl_log :
        idl_log[k].msg = <<"Here is everything IDL FHD printed:", "\n">>
                           \o Tabbed(completed.stdout)

\* C13: in every run the configuration script is written before the driver
\* script, the driver before any template, all templates before the change
\* of directory, the change of directory before the interpreter, and the
\* interpreter before its output is logged; the interpreter is invoked at
\* most once, exactly once in a run that completes, and only with every
\* script and template in place.
C13_StepsInOrderOneInvocation ==
    /\ DriverName(function) \in output_files => ConfigWritten
    /\ \A k \in DOMAIN Templates(function) :
          Templates(function)[k] \in output_files
            => /\ DriverName(function) \in output_files
               /\ \A h \in 1..k : Templates(function)[h] \in output_files
    /\ cwd = "output_dir" => AllScripts(function) \subseteq output_files
    /\ n_idl >= 1 => (cwd = "output_dir" /\ AllScripts(function) \subseteq output_files)
    /\ StdoutLogged => n_idl >= 1
    /\ n_idl <= 1
    /\ step = "done" => (n_idl = 1 /\ StdoutLogged)

C13_Witness ==
    /\ step = "done"
    /\ function = "healpix"
    /\ n_idl = 1
    /\ completed.returncode = 1
    /\ StdoutLogged
    /\ AllScripts(function) \subseteq output_files

====
